---- MODULE Spec2Model ----
(***************************************************************************)
(* ScannerStore of parity-signer: the multipart frame assembly             *)
(* (setPartData), its reset operations, the hand-over of the reassembled   *)
(* blob to the decoder, the resolution of a scanned request                *)
(* (setParsedData, setData, setTXRequest, setDataToSign) and the sign      *)
(* operations.                                                             *)
(*                                                                         *)
(* ScannerStore is an unstated Container: setState(patch) merges the patch *)
(* into this.state in a microtask.  Frames arrive one camera event at a    *)
(* time, so in Spec every handler runs to completion, microtasks included, *)
(* before the next frame is submitted.  What a handler reads into a local  *)
(* constant at its start keeps that value for the whole call, whatever it  *)
(* passes to setState meanwhile.                                           *)
(*                                                                         *)
(* Spec and SpecShown are about the frame assembly, SpecScan about         *)
(* scanning and resolving requests, SpecSign about signing.  A sign        *)
(* operation awaits a native call (the signing backend, decryptData) that  *)
(* takes time: it is modelled in two steps, with any other operation in    *)
(* between.                                                                *)
(***************************************************************************)
EXTENDS Integers, Sequences, FiniteSets, TLC

\* ------------------------------------------------------------- bounds
\* frame counts carried by frame headers range over 1..MaxFrameCount
MaxFrameCount == 3
\* frame indices carried by frame headers range over 0..MaxFrame
MaxFrame == 3

\* ---------------------------------------------------------- constants
\* JavaScript null, as held by latestFrame before any frame is stored
Null == -1
\* MULTIPART = new Uint8Array([0])
MULTIPART == <<0>>

FrameCounts == 1..MaxFrameCount
Frames == 0..MaxFrame

\* ------------------------------------------------------------- inputs
\* partData is a hex string; a string is modelled as its sequence of hex
\* digits.  Chunk(i) is the fragment of frame i of the payload being shown
\* to the camera (one byte, 0xA0 + i).
Chunk(i) == <<10, i>>
\* a fragment that starts with the reserved byte 0x7B ('{')
BracePart == <<7, 11>>
\* a fragment that starts with the reserved byte 0x00
ZeroPart == <<0, 0>>

PartDataOf(frame) ==
  IF frame = 0 THEN {Chunk(0), BracePart, ZeroPart} ELSE {Chunk(frame)}

\* --------------------------------------------------------- JS helpers
\* ../util/numbers mod: the non-negative remainder
mod(n, m) == n % m

\* ../util/decoders encodeNumber: a number as two bytes, big-endian
encodeNumber(value) == <<(value \div 256) % 256, value % 256>>

\* Number(x) as applied by the - operator: null converts to 0
ToNumber(x) == IF x = Null THEN 0 ELSE x

\* truthiness of a number-or-null: null and 0 are falsy
Truthy(x) == x # Null /\ x # 0

\* lines 208-212: partData.length / 2 bytes, each parsed from two hex digits
partDataAsBytes(partData) ==
  [i \in 1..(Len(partData) \div 2) |-> 16 * partData[2 * i - 1] + partData[2 * i]]

\* JS values as the === operator sees them: a number, or an object with its
\* own identity
NumberValue(n) == [type |-> "number", value |-> n, id |-> 0]
\* new Uint8Array([b]): every evaluation yields a fresh object; id tells the
\* allocations of one evaluation of the condition apart
NewUint8Array(bytes, id) == [type |-> "object", value |-> bytes, id |-> id]

\* a === b: numbers are equal by value, objects only when they are the same
\* object, values of different types never
StrictEquals(a, b) ==
  /\ a.type = b.type
  /\ IF a.type = "number" THEN a.value = b.value ELSE a.id = b.id /\ a.id # 0

\* lines 214-217: partDataAsBytes[0] === new Uint8Array([0x00]) || ... 0x7b
IsInvalidPartData(bytes) ==
  \/ StrictEquals(NumberValue(bytes[1]), NewUint8Array(<<0>>, 1))
  \/ StrictEquals(NumberValue(bytes[1]), NewUint8Array(<<123>>, 2))

\* Array.prototype.includes on an array of numbers
Includes(arr, x) == \E i \in 1..Len(arr) : arr[i] = x

\* Array.prototype.indexOf, 1-based (0: absent)
IndexOf(arr, x) ==
  IF Includes(arr, x) THEN CHOOSE i \in 1..Len(arr) :
                             arr[i] = x /\ \A j \in 1..(i - 1) : arr[j] # x
  ELSE 0

\* arr.splice(arr.indexOf(x), 1)
Splice(arr, x) ==
  LET k == IndexOf(arr, x)
  IN  [i \in 1..(Len(arr) - 1) |-> IF i < k THEN arr[i] ELSE arr[i + 1]]

\* Array.from(new Set(arr)): first occurrences, in insertion order
RECURSIVE Dedup(_)
Dedup(arr) ==
  IF arr = <<>> THEN <<>>
  ELSE LET front == Dedup(SubSeq(arr, 1, Len(arr) - 1))
           last == arr[Len(arr)]
       IN  IF Includes(front, last) THEN front ELSE Append(front, last)

\* mutant of SortedKeys: the keys in descending order
RECURSIVE SortedKeys_Descending(_)
SortedKeys_Descending(keys) ==
  IF keys = {} THEN <<>>
  ELSE LET k == CHOOSE x \in keys : \A y \in keys : x >= y
       IN  <<k>> \o SortedKeys_Descending(keys \ {k})

\* the keys of an object with integer-like keys, enumerated as Object.keys /
\* Object.values do: in ascending numeric order
RECURSIVE SortedKeys(_)
SortedKeys(keys) ==
  IF keys = {} THEN <<>>
  ELSE LET k == CHOOSE x \in keys : \A y \in keys : x <= y
       IN  <<k>> \o SortedKeys(keys \ {k})


\* ------------------------------------------------- networks (constants)
\* NetworkProtocols
ETHEREUM == "ethereum"
SUBSTRATE == "substrate"
UNKNOWN == "unknown"

\* substrateNetworkBase, in declaration order; a network key is written by
\* its name in SubstrateNetworkKeys instead of its genesis hash
SUBSTRATE_NETWORK_LIST ==
  << [key |-> "KUSAMA", prefix |-> 2],
     [key |-> "KUSAMA_CC2", prefix |-> 2],
     [key |-> "KUSAMA_DEV", prefix |-> 2],
     [key |-> "SUBSTRATE_DEV", prefix |-> 42],
     [key |-> "CENTRIFUGE_AMBER", prefix |-> 42],
     [key |-> "CENTRIFUGE", prefix |-> 36] >>

\* the keys of ethereumNetworkBase: the chain ids
ETHEREUM_NETWORK_LIST == {"1", "61", "3", "5", "42"}

\* NETWORK_LIST[networkKey].protocol; "undefined" stands for a key that is
\* not in the table, where reading a property of the entry is a TypeError
NetworkProtocol(networkKey) ==
  IF \E i \in 1..Len(SUBSTRATE_NETWORK_LIST) :
       SUBSTRATE_NETWORK_LIST[i].key = networkKey THEN SUBSTRATE
  ELSE IF networkKey \in ETHEREUM_NETWORK_LIST THEN ETHEREUM
  ELSE IF networkKey = "unknown" THEN UNKNOWN
  ELSE "undefined"

defaultNetworkKey == "KUSAMA"

\* ------------------------------------------------ addresses and accounts
\* An address is a string.  An SS58 address stands for a public key encoded
\* under a network prefix; an Ethereum address is a hex string; "none" is
\* undefined; "object" is an account object passed where an address string
\* is expected.
SS58(key, prefix) == [format |-> "ss58", key |-> key, prefix |-> prefix]
EthAddress(key) == [format |-> "hex", key |-> key, prefix |-> 0]
NoAddress == [format |-> "none", key |-> 0, prefix |-> 0]

\* decodeAddress(address) of @polkadot/util-crypto: the public key of an
\* SS58 address; it throws for anything else
CanDecodeAddress(address) == address.format = "ss58"
decodeAddress(address) == address.key
\* encodeAddress(publicKey, prefix)
encodeAddress(key, prefix) == SS58(key, prefix)

\* null, where an account is expected
NoAccount == [address |-> NoAddress, networkKey |-> ""]

\* the accounts held by the account store: Alice on Kusama, Bob on the
\* Substrate development chain, the same key as Bob's on Centrifuge, and an
\* Ethereum account
accounts ==
  { [address |-> SS58(1, 2), networkKey |-> "KUSAMA"],
    [address |-> SS58(2, 42), networkKey |-> "SUBSTRATE_DEV"],
    [address |-> SS58(2, 36), networkKey |-> "CENTRIFUGE"],
    [address |-> EthAddress(5), networkKey |-> "1"] }

\* accountsStore.getAccountByAddress(address): the account stored under
\* this very address, or null
getAccountByAddress(address) ==
  IF \E a \in accounts : a.address = address
  THEN CHOOSE a \in accounts : a.address = address
  ELSE NoAccount

\* accountsStore.getById({address, networkKey}): the account stored under
\* this address for this network, or null
getById(address, networkKey) ==
  IF \E a \in accounts : a.address = address /\ a.networkKey = networkKey
  THEN CHOOSE a \in accounts : a.address = address /\ a.networkKey = networkKey
  ELSE NoAccount

\* emptyAccount(address, networkKey): a placeholder account
emptyAccount(address, networkKey) ==
  [address |-> address, networkKey |-> networkKey]

\* an account object in the place of an address string
AsAddress(account) ==
  [format |-> "object", key |-> account.address.key,
   prefix |-> account.address.prefix]

\* ------------------------------------------------------ scanned requests
\* What constructDataFromBytes makes of a complete payload, as far as the
\* store reads it: action, data.account, data.crypto, data.rlp ("" when
\* absent), the genesis hash of data.data ("" when data.data is no
\* extrinsic payload), isHash, oversized and preHash.
Request(name, action, account, crypto, rlp, genesisHash, oversized, preHash) ==
  [name |-> name, action |-> action, account |-> account, crypto |-> crypto,
   rlp |-> rlp, genesisHash |-> genesisHash, isHash |-> oversized,
   oversized |-> oversized, preHash |-> preHash]

\* null, where a request is expected
NoRequest == Request("", "", NoAddress, "", "", "", FALSE, "null")

\* requests a scan can decode to
ScannedRequests ==
  { \* a Kusama extrinsic from Alice's address
    Request("txAlice", "signTransaction", SS58(1, 2), "sr25519", "",
            "KUSAMA", FALSE, "pre-txAlice"),
    \* the same key as Alice's under another network's prefix, oversized
    Request("txAlice42", "signTransaction", SS58(1, 42), "ed25519", "",
            "KUSAMA", TRUE, "pre-txAlice42"),
    \* an extrinsic from a key that is in no account
    Request("txNobody", "signTransaction", SS58(3, 42), "sr25519", "",
            "KUSAMA", FALSE, "pre-txNobody"),
    \* a message from Bob's address
    Request("msgBob", "signData", SS58(2, 42), "ed25519", "",
            "", FALSE, "undefined"),
    \* an Ethereum transaction from the Ethereum account
    Request("txEve", "signTransaction", EthAddress(5), "", "rlp-1",
            "", FALSE, "undefined"),
    \* an Ethereum transaction of a chain that is not in the network table
    Request("txEveRinkeby", "signTransaction", EthAddress(5), "", "rlp-4",
            "", FALSE, "undefined"),
    \* an Ethereum transaction from an address that is in no account
    Request("txMallory", "signTransaction", EthAddress(7), "", "rlp-1",
            "", FALSE, "undefined"),
    \* an Ethereum message (no crypto field) from the Ethereum account
    Request("msgEve", "signData", EthAddress(5), "", "",
            "", FALSE, "undefined"),
    \* an Ethereum message from an address that is in no account
    Request("msgMallory", "signData", EthAddress(7), "", "",
            "", FALSE, "undefined"),
    \* a legacy payload whose action is neither of the two
    Request("other", "signSomething", EthAddress(5), "", "",
            "", FALSE, "undefined") }

\* a request only setUnsigned can store: an Ethereum transaction without
\* account
MalformedRequests ==
  { Request("txNoAccount", "signTransaction", NoAddress, "", "rlp-1",
            "", FALSE, "undefined") }

Requests == ScannedRequests \cup MalformedRequests

RequestNamed(name) ==
  IF \E r \in Requests : r.name = name
  THEN CHOOSE r \in Requests : r.name = name
  ELSE NoRequest

\* transaction(rlp) of the native module: the decoded Ethereum transaction,
\* of which the store reads ethereumChainId and action (the recipient)
transaction(rlp) ==
  [ethereumChainId |-> IF rlp = "rlp-4" THEN "4" ELSE "1",
   action |-> EthAddress(6)]

\* a value derived from a request: '' ("empty"), the extrinsic payload
\* data.data ("payload"), keccak(rlp) ("keccak"), the message data.data
\* ("message"), ethSign(message) ("ethSign"), transaction(rlp) ("tx")
Derived(kind, of) == [kind |-> kind, of |-> of]
EmptyString == Derived("empty", "")
NullValue == Derived("null", "")

\* scanErrorMsg: '' or the message of line 182, which names an address
NoErrorMsg == [text |-> "", address |-> NoAddress]
NoPrivateKeyFound(address) ==
  [text |-> "No private key found for ... in your signer key storage.",
   address |-> address]

\* ------------------------------------------------------------ hex strings
\* A hex string is a sequence of characters, with or without the "0x" in
\* front; a Uint8Array is a sequence of numbers in 0..255.
HexChars == <<"0", "1", "2", "3", "4", "5", "6", "7",
              "8", "9", "a", "b", "c", "d", "e", "f">>
HexPrefix == <<"0", "x">>

HexDigitValue(c) == (CHOOSE i \in 1..Len(HexChars) : HexChars[i] = c) - 1

HasHexPrefix(s) == Len(s) >= 2 /\ SubSeq(s, 1, 2) = HexPrefix

\* hexStripPrefix(s)
hexStripPrefix(s) == IF HasHexPrefix(s) THEN SubSeq(s, 3, Len(s)) ELSE s

\* hexToU8a(s): one byte for every two digits after the prefix
hexToU8a(s) ==
  LET digits == hexStripPrefix(s)
  IN  [i \in 1..(Len(digits) \div 2) |->
         16 * HexDigitValue(digits[2 * i - 1]) + HexDigitValue(digits[2 * i])]

\* u8aToHex(u8a, -1, isPrefixed)
RECURSIVE ByteDigits(_)
ByteDigits(u8a) ==
  IF u8a = <<>> THEN <<>>
  ELSE <<HexChars[(u8a[1] \div 16) + 1], HexChars[(u8a[1] % 16) + 1]>>
       \o ByteDigits(Tail(u8a))
u8aToHex(u8a, isPrefixed) ==
  (IF isPrefixed THEN HexPrefix ELSE <<>>) \o ByteDigits(u8a)

\* u8aConcat(a, b)
u8aConcat(a, b) == a \o b

\* mutant of SIG_TYPE_SR25519: the tag of ed25519
SIG_TYPE_ED25519 == <<0>>
\* SIG_TYPE_SR25519 = new Uint8Array([1])
SIG_TYPE_SR25519 == <<1>>

\* the signature a signing backend returns: a hex string without prefix
Signatures == { <<"a", "b", "0", "f">> }

\* what signDataBiometric stores as signedData from the backend's result
\* (lines 452-458)
SignedData(isEthereum, signed) ==
  IF isEthereum THEN signed
  ELSE u8aToHex(u8aConcat(SIG_TYPE_SR25519, hexToU8a(HexPrefix \o signed)), FALSE)

\* what signDataWithSuri stores as signedData from the backend's result
\* (lines 471-491): '0x' is put in front of the signature first (line 486)
SignedDataWithSuri(isEthereum, signed) ==
  IF isEthereum THEN signed
  ELSE LET prefixed == HexPrefix \o signed
       IN  u8aToHex(u8aConcat(SIG_TYPE_SR25519, hexToU8a(prefixed)), FALSE)


\* ----------------------------------------------------------- data to sign
\* A value the sign operations may find in dataToSign: a string (its
\* characters), a Uint8Array (its bytes), a GenericExtrinsicPayload (the
\* bytes of its fields), or something else.
StringValue(chars) == [shape |-> "string", chars |-> chars, bytes |-> <<>>]
U8aValue(bytes) == [shape |-> "Uint8Array", chars |-> <<>>, bytes |-> bytes]
PayloadValue(bytes) ==
  [shape |-> "GenericExtrinsicPayload", chars |-> <<>>, bytes |-> bytes]
OtherValue == [shape |-> "other", chars |-> <<>>, bytes |-> <<>>]

\* messages whose data.data is, in turn, the hex string of a hash (the
\* message was oversized), a Uint8Array, and a string with a character
\* outside ASCII; all from Bob's address
MessageRequests ==
  { Request("msgBobHash", "signData", SS58(2, 42), "ed25519", "",
            "", TRUE, "undefined"),
    Request("msgBobBytes", "signData", SS58(2, 42), "ed25519", "",
            "", FALSE, "undefined"),
    Request("msgBobText", "signData", SS58(2, 42), "ed25519", "",
            "", FALSE, "undefined") }

\* data.data of a message request
MessageData(name) ==
  CASE name = "msgBobHash" -> StringValue(<<"0", "x", "a", "b">>)
    [] name = "msgBobBytes" -> U8aValue(<<1, 255>>)
    [] name = "msgBobText" -> StringValue(<<"h", "U+00E9">>)
    [] OTHER -> StringValue(<<"h", "i">>)

\* the value a Derived stands for; keccak(rlp) and ethSign(message) are hex
\* strings
ValueOf(derived) ==
  CASE derived.kind = "payload" -> PayloadValue(<<4, 0>>)
    [] derived.kind = "message" -> MessageData(derived.of)
    [] derived.kind = "keccak" -> StringValue(<<"c", "0">>)
    [] derived.kind = "ethSign" -> StringValue(<<"e", "5">>)
    [] derived.kind = "empty" -> StringValue(<<>>)
    [] OTHER -> OtherValue

\* the characters that occur, with their character codes
CharCodes ==
  { [char |-> "0", code |-> 48], [char |-> "5", code |-> 53],
    [char |-> "a", code |-> 97], [char |-> "b", code |-> 98],
    [char |-> "c", code |-> 99], [char |-> "e", code |-> 101],
    [char |-> "h", code |-> 104], [char |-> "i", code |-> 105],
    [char |-> "x", code |-> 120], [char |-> "U+00E9", code |-> 233] }
charCodeAt(c) == (CHOOSE e \in CharCodes : e.char = c).code

\* isU8a(value)
isU8a(value) == value.shape = "Uint8Array"

\* isAscii(value): a string of characters up to code 127
isAscii(value) ==
  /\ value.shape = "string"
  /\ \A i \in 1..Len(value.chars) : charCodeAt(value.chars[i]) <= 127

\* asciiToHex(string): two hex digits for every character
asciiToHex(chars) ==
  u8aToHex([i \in 1..Len(chars) |-> charCodeAt(chars[i])], TRUE)

\* payload.toU8a(isBare): the encoded fields, behind their compact-encoded
\* length unless isBare
toU8a(payload, isBare) ==
  IF isBare THEN payload.bytes ELSE <<4 * Len(payload.bytes)>> \o payload.bytes

\* the signable of a call that matched no branch
Undefined == <<"undefined">>

\* mutant of SubstrateSignable: isHash is tested first
SubstrateSignable_HashFirst(dataToSign, isHash) ==
  IF isHash
  THEN hexStripPrefix(dataToSign.chars)
  ELSE IF dataToSign.shape = "GenericExtrinsicPayload"
  THEN u8aToHex(toU8a(dataToSign, TRUE), FALSE)
  ELSE IF isU8a(dataToSign)
  THEN hexStripPrefix(u8aToHex(dataToSign.bytes, TRUE))
  ELSE IF isAscii(dataToSign)
  THEN hexStripPrefix(asciiToHex(dataToSign.chars))
  ELSE Undefined

\* lines 422-430: the signable signDataBiometric makes of a Substrate
\* request
SubstrateSignable(dataToSign, isHash) ==
  IF dataToSign.shape = "GenericExtrinsicPayload"
  THEN u8aToHex(toU8a(dataToSign, TRUE), FALSE)
  ELSE IF isHash
  THEN hexStripPrefix(dataToSign.chars)
  ELSE IF isU8a(dataToSign)
  THEN hexStripPrefix(u8aToHex(dataToSign.bytes, TRUE))
  ELSE IF isAscii(dataToSign)
  THEN hexStripPrefix(asciiToHex(dataToSign.chars))
  ELSE Undefined

\* lines 418-431: what signDataBiometric hands to the backend as the data
\* to sign
Signable(s, isEthereum) ==
  IF isEthereum THEN ValueOf(s.dataToSign).chars
  ELSE SubstrateSignable(ValueOf(s.dataToSign), s.isHash)

\* mutant of SubstrateSignableWithSuri: the payload is encoded with its
\* length prefix
SubstrateSignableWithSuri_Prefixed(dataToSign, isHash) ==
  IF dataToSign.shape = "GenericExtrinsicPayload"
  THEN u8aToHex(toU8a(dataToSign, FALSE), FALSE)
  ELSE IF isHash
  THEN hexStripPrefix(dataToSign.chars)
  ELSE IF isU8a(dataToSign)
  THEN hexStripPrefix(u8aToHex(dataToSign.bytes, TRUE))
  ELSE IF isAscii(dataToSign)
  THEN hexStripPrefix(asciiToHex(dataToSign.chars))
  ELSE Undefined

\* lines 475-484: the signable signDataWithSuri makes of a Substrate
\* request
SubstrateSignableWithSuri(dataToSign, isHash) ==
  IF dataToSign.shape = "GenericExtrinsicPayload"
  THEN u8aToHex(toU8a(dataToSign, TRUE), FALSE)
  ELSE IF isHash
  THEN hexStripPrefix(dataToSign.chars)
  ELSE IF isU8a(dataToSign)
  THEN hexStripPrefix(u8aToHex(dataToSign.bytes, TRUE))
  ELSE IF isAscii(dataToSign)
  THEN hexStripPrefix(asciiToHex(dataToSign.chars))
  ELSE Undefined

\* lines 472-485: what signDataWithSuri hands to the backend as the data
\* to sign, brainWalletSign(suri, dataToSign) for Ethereum
SignableWithSuri(s, isEthereum) ==
  IF isEthereum THEN ValueOf(s.dataToSign).chars
  ELSE SubstrateSignableWithSuri(ValueOf(s.dataToSign), s.isHash)

\* -------------------------------------------------------------- state
VARIABLES
  \* ScannerState, the fields of the frame assembly (lines 70-91)
  totalFrameCount,
  latestFrame,
  missedFrames,
  multipartComplete,
  multipartData,
  completedFramesCount,
  \* the decoder's side of the hand-over: the blob of the latest
  \* setParsedData(blob, accountsStore, true) call of this session (<<>>:
  \* none) and the number of such calls in this session
  concatMultipartData,
  decodeCalls,
  \* history of the session, for stating the properties
  lastCall,            \* the latest store call and its arguments
  thrown,              \* TRUE iff the latest call threw
  sessionWellFormed,   \* every frame so far is a frame of the shown payload
  firstFrameCount,     \* frame count of the session's first frame (0: none)
  ascending,           \* k: the session's submissions were frames 0..k-1,
                       \* each once, in this order; Null otherwise
  gaps,                \* indices skipped between two consecutively stored
                       \* frames of this session
  firstBlob,           \* blob of the first session completed (SpecShown)
  \* ScannerState, the other fields (lines 70-91), as one record
  state,
  \* the calls of sign operations to a signing backend or to decryptData
  \* that have neither resolved nor rejected yet, oldest first
  pending

assembly ==
  <<totalFrameCount, latestFrame, missedFrames, multipartComplete,
    multipartData, completedFramesCount>>

vars ==
  <<totalFrameCount, latestFrame, missedFrames, multipartComplete,
    multipartData, completedFramesCount, concatMultipartData, decodeCalls,
    lastCall, thrown, sessionWellFormed, firstFrameCount, ascending, gaps,
    firstBlob, state, pending>>

\* multipartData is an object: a map from the keys it has to their values
EmptyObject == [k \in {} |-> <<>>]

\* arg: the name of the request a scan decoded to, or the sign operation a
\* backend call belongs to; returned: what the call returned, if it did;
\* lookups: the account lookups the call made while trying the address of
\* the payload under the prefixes of the known networks
NoCall ==
  [op |-> "none", frame |-> 0, frameCount |-> 0, partData |-> <<>>,
   arg |-> "", returned |-> "undefined", lookups |-> <<>>]

\* the fields of DEFAULT_STATE (lines 93-114) that state holds
DEFAULT_STATE ==
  [busy |-> FALSE, dataToSign |-> EmptyString, isHash |-> FALSE,
   isOversized |-> FALSE, message |-> NullValue, prehash |-> "null",
   recipient |-> NoAccount, scanErrorMsg |-> NoErrorMsg, sender |-> NoAccount,
   signedData |-> <<>>, tx |-> EmptyString, txRequest |-> NoRequest,
   type |-> "null", unsignedData |-> NoRequest]

\* DEFAULT_STATE (lines 93-114), the state after construction (line 124)
Init ==
  /\ totalFrameCount = 0
  /\ latestFrame = Null
  /\ missedFrames = <<>>
  /\ multipartComplete = FALSE
  /\ multipartData = EmptyObject
  /\ completedFramesCount = 0
  /\ concatMultipartData = <<>>
  /\ decodeCalls = 0
  /\ lastCall = NoCall
  /\ thrown = FALSE
  /\ sessionWellFormed = TRUE
  /\ firstFrameCount = 0
  /\ ascending = 0
  /\ gaps = {}
  /\ firstBlob = <<>>
  /\ state = DEFAULT_STATE
  /\ pending = <<>>

\* ------------------------------------------------ setPartData, pieces
\* mutant of NextTotalFrameCount: every frame overwrites the count
NextTotalFrameCount_Overwrite(total, frameCount) == frameCount

\* lines 201-206: "set it once only"
NextTotalFrameCount(total, frameCount) ==
  IF total = 0 THEN frameCount ELSE total

\* mutant of AllFramesFilled: without the test of multipartComplete
AllFramesFilled_Again(count, total, complete) ==
  count > 0 /\ total > 0 /\ count = total

\* lines 224-229: all the frames are filled
AllFramesFilled(count, total, complete) ==
  count > 0 /\ total > 0 /\ count = total /\ ~complete

\* mutant of FramesLeft: off by one
FramesLeft_OffByOne(count, total) == count <= total

\* mutant of FramesLeft: the last frame is never taken
FramesLeft_OneShort(count, total) == count + 1 < total

\* line 251: we haven't filled all the frames yet
FramesLeft(count, total) == count < total

\* lines 237-239: Object.values(multipartData).reduce((acc, part) =>
\* [...acc, ...part])
RECURSIVE ConcatValues(_, _)
ConcatValues(data, keys) ==
  IF keys = <<>> THEN <<>>
  ELSE data[Head(keys)] \o ConcatValues(data, Tail(keys))

ConcatParts(data) == ConcatValues(data, SortedKeys(DOMAIN data))

\* mutant of frameInfo: the frame index before the frame count
frameInfo_FrameFirst(total, frame) ==
  MULTIPART \o encodeNumber(frame) \o encodeNumber(total)

\* lines 242-246: u8aConcat(MULTIPART, encodeNumber(totalFrameCount),
\* encodeNumber(frame))
frameInfo(total, frame) == MULTIPART \o encodeNumber(total) \o encodeNumber(frame)

\* lines 253-254: nextDataState[frame] = partDataAsBytes
StoreFrame(data, frame, bytes) ==
  [k \in DOMAIN data \cup {frame} |-> IF k = frame THEN bytes ELSE data[k]]

\* line 256
missedFramesRange(frame, latest, total) ==
  mod(frame - ToNumber(latest), total) - 1

\* lines 259-263: we skipped at least one frame that we haven't already
\* scanned before
SkippedFrames(frame, latest, total, missed) ==
  /\ Truthy(latest)
  /\ missedFramesRange(frame, latest, total) >= 1
  /\ ~Includes(missed, frame)

\* lines 265-268: Array.from(new Array(missedFramesRange), (_, i) =>
\* mod(i + latestFrame, totalFrameCount)), i from 0
updatedMissedFrames(frame, latest, total) ==
  [j \in 1..missedFramesRange(frame, latest, total) |->
     mod((j - 1) + latest, total)]

\* lines 259-283: the array that state.missedFrames holds once the call's
\* setState patches are merged.  When frames were skipped the patch of line
\* 276 installs a new array, built before line 282 runs, and the splice of
\* line 282 changes only the array that was replaced; otherwise the splice
\* changes the array the state holds.
NextMissedFrames(frame, latest, total, missed) ==
  IF SkippedFrames(frame, latest, total, missed)
  THEN Dedup(missed \o updatedMissedFrames(frame, latest, total))
  ELSE IF Includes(missed, frame - 1) THEN Splice(missed, frame - 1)
       ELSE missed

\* ------------------------------------------------------------ history
IsShownFrame(frame, frameCount, partData) ==
  /\ frame < frameCount
  /\ partData = Chunk(frame)

\* the indices strictly between latest and another frame, going forward
\* modulo total; seeing the same frame again skips nothing
Between(latest, frame, total) ==
  IF frame = latest THEN {}
  ELSE {(latest + k) % total : k \in 1..((frame - latest - 1) % total)}

\* history kept by every frame submission
Observe(frame, frameCount, partData) ==
  /\ lastCall' = [NoCall EXCEPT !.op = "setPartData", !.frame = frame,
                                !.frameCount = frameCount,
                                !.partData = partData]
  /\ sessionWellFormed' =
       (/\ sessionWellFormed
        /\ IsShownFrame(frame, frameCount, partData)
        /\ (firstFrameCount # 0 => frameCount = firstFrameCount))
  /\ firstFrameCount' = IF firstFrameCount # 0 THEN firstFrameCount
                        ELSE frameCount
  /\ ascending' = IF /\ ascending = frame
                     /\ IsShownFrame(frame, frameCount, partData)
                     /\ (frame > 0 => frameCount = firstFrameCount)
                  THEN frame + 1 ELSE Null

\* ---------------------------------------------------------- operations
\* setPartData(frame, frameCount, partData, accountsStore), lines 192-294
setPartData(frame, frameCount, partData) ==
  LET total == totalFrameCount          \* the local constant of line 198
      bytes == partDataAsBytes(partData)
      count == Cardinality(DOMAIN multipartData)       \* line 222
  IN
  /\ Observe(frame, frameCount, partData)
  /\ totalFrameCount' = NextTotalFrameCount(total, frameCount)
  /\ IF IsInvalidPartData(bytes)
     THEN \* line 219: throw; the patch of line 203 is already queued
          /\ thrown' = TRUE
          /\ UNCHANGED <<latestFrame, missedFrames, multipartComplete,
                         multipartData, completedFramesCount,
                         concatMultipartData, decodeCalls, gaps>>
     ELSE
       /\ thrown' = FALSE
       /\ completedFramesCount' = count                \* lines 291-293
       /\ IF AllFramesFilled(count, total, multipartComplete)
          THEN \* lines 230-250
               LET blob == frameInfo(total, frame) \o ConcatParts(multipartData)
               IN  /\ multipartComplete' = TRUE
                   /\ concatMultipartData' = blob
                   /\ decodeCalls' = decodeCalls + 1
                   /\ UNCHANGED <<latestFrame, missedFrames, multipartData, gaps>>
          ELSE IF FramesLeft(count, total)
          THEN \* lines 252-288
               /\ multipartData' = StoreFrame(multipartData, frame, bytes)
               /\ missedFrames' =
                    NextMissedFrames(frame, latestFrame, total, missedFrames)
               /\ latestFrame' = frame
               /\ gaps' = IF latestFrame = Null THEN gaps
                          ELSE gaps \cup Between(latestFrame, frame, total)
               /\ UNCHANGED <<multipartComplete, concatMultipartData,
                              decodeCalls>>
          ELSE UNCHANGED <<latestFrame, missedFrames, multipartComplete,
                           multipartData, concatMultipartData, decodeCalls,
                           gaps>>

\* ---- setPartData as a function of the state it reads
\* the assembly as a record
AssemblyState ==
  [totalFrameCount |-> totalFrameCount, latestFrame |-> latestFrame,
   missedFrames |-> missedFrames, multipartComplete |-> multipartComplete,
   multipartData |-> multipartData,
   completedFramesCount |-> completedFramesCount,
   concatMultipartData |-> concatMultipartData, decodeCalls |-> decodeCalls]

\* What one call of setPartData (lines 192-294) does, given the state it
\* reads at line 193: which patches it queues with setState, and what it
\* leaves, changed in place, of the object multipartData (line 254) and of
\* the array missedFrames (line 282) that the state held when it read them.
RunPartData(read, frame, frameCount, partData) ==
  LET total == read.totalFrameCount
      bytes == partDataAsBytes(partData)
      count == Cardinality(DOMAIN read.multipartData)
      throws == IsInvalidPartData(bytes)
      completes == ~throws /\ AllFramesFilled(count, total, read.multipartComplete)
      stores == ~throws /\ ~completes /\ FramesLeft(count, total)
      skipped == stores /\ SkippedFrames(frame, read.latestFrame, total,
                                         read.missedFrames)
  IN  [throws |-> throws,
       setsTotal |-> total = 0,                            \* lines 202-206
       total |-> NextTotalFrameCount(total, frameCount),
       count |-> count,                                    \* line 222
       completes |-> completes,                            \* lines 224-250
       blob |-> IF completes
                THEN frameInfo(total, frame) \o ConcatParts(read.multipartData)
                ELSE <<>>,
       stores |-> stores,                                  \* lines 251-288
       data |-> IF stores THEN StoreFrame(read.multipartData, frame, bytes)
                ELSE read.multipartData,
       skipped |-> skipped,                                \* lines 259-278
       newMissed |-> IF skipped
                     THEN Dedup(read.missedFrames
                                \o updatedMissedFrames(frame, read.latestFrame,
                                                       total))
                     ELSE <<>>,
       oldMissed |-> IF stores /\ Includes(read.missedFrames, frame - 1)
                     THEN Splice(read.missedFrames, frame - 1)  \* lines 281-283
                     ELSE read.missedFrames]

\* The state once the patches of a call are merged into the state held.
\* sameArray: the array held as missedFrames is the one the call read, so
\* that the splice of line 282 shows in it.
MergePartData(held, frame, run, sameArray) ==
  [totalFrameCount |-> IF run.setsTotal THEN run.total
                       ELSE held.totalFrameCount,
   latestFrame |-> IF run.stores THEN frame ELSE held.latestFrame,
   missedFrames |-> IF run.skipped THEN run.newMissed
                    ELSE IF sameArray THEN run.oldMissed
                    ELSE held.missedFrames,
   multipartComplete |-> run.completes \/ held.multipartComplete,
   multipartData |-> run.data,
   completedFramesCount |-> IF run.throws THEN held.completedFramesCount
                            ELSE run.count,
   concatMultipartData |-> IF run.completes THEN run.blob
                           ELSE held.concatMultipartData,
   decodeCalls |-> held.decodeCalls + (IF run.completes THEN 1 ELSE 0)]

\* Two calls of setPartData, the second made before the patches of the
\* first are merged (setState merges its patch in a later microtask): the
\* second call reads the fields of the state as the first call read them,
\* except for what the first changed in place; then the patches of the
\* first are merged, then those of the second.
BackToBack(held, frame1, frame2, frameCount) ==
  LET run1 == RunPartData(held, frame1, frameCount, Chunk(frame1))
      read2 == [held EXCEPT !.multipartData = run1.data,
                            !.missedFrames = run1.oldMissed]
      run2 == RunPartData(read2, frame2, frameCount, Chunk(frame2))
      after1 == MergePartData(held, frame1, run1, TRUE)
  IN  MergePartData(after1, frame2, run2, ~run1.skipped)

\* setPartData(frame1, ...) and setPartData(frame2, ...) of two frames of
\* the shown payload, called one right after the other.  The history of
\* frames submitted one at a time ends here.
setPartDataTwice(frame1, frame2, frameCount) ==
  LET after == BackToBack(AssemblyState, frame1, frame2, frameCount) IN
  /\ lastCall' = [NoCall EXCEPT !.op = "setPartData twice",
                                !.frame = frame2,
                                !.frameCount = frameCount,
                                !.partData = Chunk(frame2),
                                !.arg = ToString(frame1)]
  /\ thrown' = FALSE
  /\ totalFrameCount' = after.totalFrameCount
  /\ latestFrame' = after.latestFrame
  /\ missedFrames' = after.missedFrames
  /\ multipartComplete' = after.multipartComplete
  /\ multipartData' = after.multipartData
  /\ completedFramesCount' = after.completedFramesCount
  /\ concatMultipartData' = after.concatMultipartData
  /\ decodeCalls' = after.decodeCalls
  /\ sessionWellFormed' = FALSE
  /\ firstFrameCount' = IF firstFrameCount # 0 THEN firstFrameCount
                        ELSE frameCount
  /\ ascending' = Null
  /\ UNCHANGED <<gaps, firstBlob, state, pending>>

\* the assembly fields of DEFAULT_STATE, and a fresh session history
ResetAssembly ==
  /\ totalFrameCount' = 0
  /\ latestFrame' = Null
  /\ missedFrames' = <<>>
  /\ multipartComplete' = FALSE
  /\ multipartData' = EmptyObject
  /\ completedFramesCount' = 0
  /\ concatMultipartData' = <<>>
  /\ decodeCalls' = 0
  /\ thrown' = FALSE
  /\ sessionWellFormed' = TRUE
  /\ firstFrameCount' = 0
  /\ ascending' = 0
  /\ gaps' = {}

\* the patch of clearMultipartProgress (lines 526-534) on the fields that
\* state holds: unsignedData is reset with the assembly; mutant: every
\* field is
ClearedProgress_All(s) == DEFAULT_STATE
ClearedProgress(s) == [s EXCEPT !.unsignedData = DEFAULT_STATE.unsignedData]

\* clearMultipartProgress(), lines 525-535
clearMultipartProgress ==
  /\ lastCall' = [NoCall EXCEPT !.op = "clearMultipartProgress"]
  /\ ResetAssembly
  /\ state' = ClearedProgress(state)
  /\ UNCHANGED <<firstBlob, pending>>

\* the patch {...DEFAULT_STATE} of line 520 on the fields that state holds;
\* mutant: a default state without the busy field, as type ScannerState is
SpreadDefaultState_NoBusy(s) == [DEFAULT_STATE EXCEPT !.busy = s.busy]
SpreadDefaultState(s) == DEFAULT_STATE

\* cleanup(), lines 513-523: every field back to DEFAULT_STATE, then
\* clearMultipartProgress(); both patches are merged before the promise
\* resolves.  A backend call in flight is not cancelled.
cleanup ==
  /\ lastCall' = [NoCall EXCEPT !.op = "cleanup"]
  /\ ResetAssembly
  /\ state' = ClearedProgress(SpreadDefaultState(state))
  /\ UNCHANGED <<firstBlob, pending>>

\* the scanner delivers one frame, whatever its header and fragment; what
\* the decoder makes of the blob of a completed session is left out here
SubmitFrame ==
  \E frame \in Frames, frameCount \in FrameCounts :
    \E partData \in PartDataOf(frame) :
      /\ setPartData(frame, frameCount, partData)
      /\ UNCHANGED <<firstBlob, state, pending>>

Next ==
  \/ SubmitFrame
  \/ clearMultipartProgress
  \/ cleanup

Spec == Init /\ [][Next]_vars

\* Sessions of well-formed payloads only: the scanner delivers, in any order
\* and with repetitions, frames of the shown payload of frameCount frames.
\* The blob of the first session completed is kept for comparison with the
\* blobs of later sessions.
SubmitShownFrame ==
  \E frameCount \in FrameCounts :
    \E frame \in 0..(frameCount - 1) :
      /\ firstFrameCount \in {0, frameCount}
      /\ setPartData(frame, frameCount, Chunk(frame))
      /\ firstBlob' = IF multipartComplete' /\ ~multipartComplete /\ firstBlob = <<>>
                      THEN concatMultipartData' ELSE firstBlob
      /\ UNCHANGED <<state, pending>>

NextShown ==
  \/ SubmitShownFrame
  \/ clearMultipartProgress
  \/ cleanup

SpecShown == Init /\ [][NextShown]_vars

\* One session of the shown payload that is never reset: the scanner
\* delivers frame after frame of the payload, one call at a time, and goes
\* on showing every frame again and again.
DeliverFrame(frame, frameCount) ==
  /\ firstFrameCount \in {0, frameCount}
  /\ setPartData(frame, frameCount, Chunk(frame))
  /\ UNCHANGED <<firstBlob, state, pending>>

NextDeliver ==
  \E frameCount \in FrameCounts :
    \E frame \in 0..(frameCount - 1) : DeliverFrame(frame, frameCount)

\* every frame of the payload recurs for as long as the session lasts
SpecDeliver ==
  /\ Init
  /\ [][NextDeliver]_vars
  /\ \A frameCount \in FrameCounts :
       \A frame \in 0..(frameCount - 1) :
         WF_vars(DeliverFrame(frame, frameCount))

\* Sessions of the shown payload in which the scanner also delivers two
\* frames without waiting for the first to be processed.
SubmitTwoShownFrames ==
  \E frameCount \in FrameCounts :
    \E frame1 \in 0..(frameCount - 1), frame2 \in 0..(frameCount - 1) :
      /\ firstFrameCount \in {0, frameCount}
      /\ setPartDataTwice(frame1, frame2, frameCount)

NextBackToBack ==
  \/ SubmitShownFrame
  \/ SubmitTwoShownFrames
  \/ clearMultipartProgress
  \/ cleanup

SpecBackToBack == Init /\ [][NextBackToBack]_vars

\* =============================================== decode and sign operations
\* The payload shown to the camera in SpecSign has ShownFrameCount frames.
ShownFrameCount == 1
\* Sign operations whose backend call is still in flight, at most
MaxPending == 1

\* the session and its history, which the operations below leave alone
session ==
  <<totalFrameCount, latestFrame, missedFrames, multipartComplete,
    multipartData, completedFramesCount, concatMultipartData, decodeCalls,
    sessionWellFormed, firstFrameCount, ascending, gaps, firstBlob>>

Called(op, arg, returned) ==
  lastCall' = [NoCall EXCEPT !.op = op, !.arg = arg, !.returned = returned]

\* setUnsigned(data), lines 126-130
setUnsigned(data) ==
  /\ Called("setUnsigned", "", "undefined")
  /\ thrown' = FALSE
  /\ state' = [state EXCEPT !.unsignedData = data]
  /\ UNCHANGED <<session, pending>>

\* mutant of MatchingNetworks: no re-encoding is tried
MatchingNetworks_None(address) == {}

\* The positions in SUBSTRATE_NETWORK_LIST under whose prefix the key of the
\* address is the address of a stored account (lines 162-171).
MatchingNetworks(address) ==
  {i \in 1..Len(SUBSTRATE_NETWORK_LIST) :
     getAccountByAddress(
       encodeAddress(decodeAddress(address), SUBSTRATE_NETWORK_LIST[i].prefix))
     # NoAccount}

\* the account the loop of lines 162-179 stops at
FirstMatch(address) ==
  LET i == CHOOSE j \in MatchingNetworks(address) :
             \A k \in MatchingNetworks(address) : j <= k
  IN  getAccountByAddress(
        encodeAddress(decodeAddress(address), SUBSTRATE_NETWORK_LIST[i].prefix))

\* setParsedData on a complete payload (lines 153-189) rejects when
\* decodeAddress throws: no account has the address and it is no SS58 address
ParsedDataThrows(parsedData) ==
  /\ getAccountByAddress(parsedData.account) = NoAccount
  /\ ~CanDecodeAddress(parsedData.account)

\* mutant of ParsedDataState: unsignedData is set when no account matches
ParsedDataState_SetAnyway(s, parsedData) ==
  IF getAccountByAddress(parsedData.account) # NoAccount
  THEN [s EXCEPT !.unsignedData = parsedData, !.prehash = parsedData.preHash]
  ELSE IF MatchingNetworks(parsedData.account) # {}
  THEN [s EXCEPT !.unsignedData =
          [parsedData EXCEPT !.account = FirstMatch(parsedData.account).address]]
  ELSE [s EXCEPT !.unsignedData = parsedData,
                 !.scanErrorMsg = NoPrivateKeyFound(parsedData.account),
                 !.prehash = parsedData.preHash]

\* the state setParsedData leaves for a complete payload it does not reject
\* (lines 153-189)
ParsedDataState(s, parsedData) ==
  IF getAccountByAddress(parsedData.account) # NoAccount
  THEN \* lines 154-156 and 189
       [s EXCEPT !.unsignedData = parsedData, !.prehash = parsedData.preHash]
  ELSE IF MatchingNetworks(parsedData.account) # {}
  THEN \* lines 172-178: the call returns before line 189
       [s EXCEPT !.unsignedData =
          [parsedData EXCEPT !.account = FirstMatch(parsedData.account).address]]
  ELSE \* lines 182-184 and 189
       [s EXCEPT !.scanErrorMsg = NoPrivateKeyFound(parsedData.account),
                 !.prehash = parsedData.preHash]

\* The lookups of the loop of lines 162-179 from position i of the network
\* table on: the address is re-encoded under the prefix of the network
\* (lines 166-169) and looked up (line 165), and the loop ends with the
\* first account found (lines 172-178) or with the table.
RECURSIVE FallbackLookups(_, _)
FallbackLookups(address, i) ==
  IF i > Len(SUBSTRATE_NETWORK_LIST) THEN <<>>
  ELSE LET encoded == encodeAddress(decodeAddress(address),
                                    SUBSTRATE_NETWORK_LIST[i].prefix)
           account == getAccountByAddress(encoded)
           lookup == [network |-> SUBSTRATE_NETWORK_LIST[i].key,
                      address |-> encoded, account |-> account]
       IN  IF account # NoAccount THEN <<lookup>>
           ELSE <<lookup>> \o FallbackLookups(address, i + 1)

\* mutant of Lookups: the loop starts at i = 1, the second network
Lookups_FromSecond(parsedData) ==
  IF getAccountByAddress(parsedData.account) # NoAccount THEN <<>>
  ELSE IF ~CanDecodeAddress(parsedData.account) THEN <<>>
  ELSE FallbackLookups(parsedData.account, 2)

\* the lookups of the loop setParsedData makes for a complete payload: none
\* when the address itself is found (line 153) and none when decodeAddress
\* throws in the first round (line 167)
Lookups(parsedData) ==
  IF getAccountByAddress(parsedData.account) # NoAccount THEN <<>>
  ELSE IF ~CanDecodeAddress(parsedData.account) THEN <<>>
  ELSE FallbackLookups(parsedData.account, 1)

\* setParsedData(strippedData, accountsStore) of a single-frame payload that
\* constructDataFromBytes decodes to parsedData, lines 137-190
setParsedData(parsedData) ==
  /\ lastCall' = [NoCall EXCEPT !.op = "setParsedData",
                                !.arg = parsedData.name,
                                !.lookups = Lookups(parsedData)]
  /\ IF ParsedDataThrows(parsedData)
     THEN thrown' = TRUE /\ UNCHANGED state
     ELSE thrown' = FALSE /\ state' = ParsedDataState(state, parsedData)
  /\ UNCHANGED <<session, pending>>

\* setParsedData(strippedData, accountsStore) when constructDataFromBytes
\* throws, lines 138-141
setParsedData_DecodeError ==
  /\ Called("setParsedData", "", "undefined")
  /\ thrown' = TRUE
  /\ UNCHANGED <<session, state, pending>>

\* what constructDataFromBytes(blob, true) makes of the reassembled blob of
\* the shown payload
ShownRequest == RequestNamed("txAlice")

\* setParsedData(strippedData, accountsStore) of a frame of the shown
\* multipart payload, lines 137-151, together with the
\* setParsedData(blob, accountsStore, true) of lines 246-250 when this
\* frame completes the session
setParsedData_Multipart(frame) ==
  /\ setPartData(frame, ShownFrameCount, Chunk(frame))
  /\ state' = IF multipartComplete' /\ ~multipartComplete
              THEN ParsedDataState(state, ShownRequest) ELSE state
  /\ UNCHANGED <<firstBlob, pending>>

\* setBusy(), lines 547-551
Busy(s) == [s EXCEPT !.busy = TRUE]

setBusy ==
  /\ Called("setBusy", "", "undefined")
  /\ thrown' = FALSE
  /\ state' = Busy(state)
  /\ UNCHANGED <<session, pending>>

\* setReady(), lines 556-560
setReady ==
  /\ Called("setReady", "", "undefined")
  /\ thrown' = FALSE
  /\ state' = [state EXCEPT !.busy = FALSE]
  /\ UNCHANGED <<session, pending>>

\* ---- setTXRequest(txRequest, accountsStore), lines 347-410
TxIsEthereum(txRequest) == txRequest.rlp # ""

TxNetworkKey(txRequest) ==
  IF TxIsEthereum(txRequest) THEN transaction(txRequest.rlp).ethereumChainId
  ELSE txRequest.genesisHash

\* the throws of lines 357-362 and 379-383 and the TypeErrors of lines 370
\* and 377
TXRequestThrows(txRequest) ==
  \/ TxIsEthereum(txRequest) /\ txRequest.account = NoAddress
  \/ ~TxIsEthereum(txRequest) /\ txRequest.genesisHash = ""
  \/ NetworkProtocol(TxNetworkKey(txRequest)) = "undefined"
  \/ getById(txRequest.account, TxNetworkKey(txRequest)) = NoAccount

\* lines 385-391
TxRecipient(txRequest) ==
  LET networkKey == TxNetworkKey(txRequest)
      recipientAddress == IF TxIsEthereum(txRequest)
                          THEN transaction(txRequest.rlp).action
                          ELSE txRequest.account
      stored == getById(recipientAddress, networkKey)
  IN  IF stored # NoAccount THEN stored
      ELSE emptyAccount(AsAddress(emptyAccount(recipientAddress, networkKey)),
                        defaultNetworkKey)

\* mutant of TXRequestState: the transaction itself is signed, not its
\* keccak hash
TXRequestState_UnhashedRlp(s, txRequest) ==
  IF TXRequestThrows(txRequest) THEN Busy(s)
  ELSE [Busy(s) EXCEPT
          !.dataToSign = IF TxIsEthereum(txRequest)
                         THEN Derived("tx", txRequest.rlp)
                         ELSE Derived("payload", txRequest.name),
          !.isOversized = txRequest.oversized,
          !.recipient = TxRecipient(txRequest),
          !.sender = getById(txRequest.account, TxNetworkKey(txRequest)),
          !.tx = IF TxIsEthereum(txRequest) THEN Derived("tx", txRequest.rlp)
                 ELSE Derived("payload", txRequest.name),
          !.txRequest = txRequest,
          !.type = "transaction"]

\* the state setTXRequest leaves: busy is set first (line 348), the rest
\* (lines 399-407) only when nothing throws
TXRequestState(s, txRequest) ==
  IF TXRequestThrows(txRequest) THEN Busy(s)
  ELSE [Busy(s) EXCEPT
          !.dataToSign = IF TxIsEthereum(txRequest)
                         THEN Derived("keccak", txRequest.rlp)
                         ELSE Derived("payload", txRequest.name),
          !.isOversized = txRequest.oversized,
          !.recipient = TxRecipient(txRequest),
          !.sender = getById(txRequest.account, TxNetworkKey(txRequest)),
          !.tx = IF TxIsEthereum(txRequest) THEN Derived("tx", txRequest.rlp)
                 ELSE Derived("payload", txRequest.name),
          !.txRequest = txRequest,
          !.type = "transaction"]

\* ---- setDataToSign(signRequest, accountsStore), lines 309-345
\* lines 329-333
DataToSignThrows(signRequest) ==
  getAccountByAddress(signRequest.account) = NoAccount

\* mutant of DataToSignState: the message is signed as it is, whatever the
\* crypto field
DataToSignState_NoEthSign(s, signRequest) ==
  IF DataToSignThrows(signRequest) THEN Busy(s)
  ELSE [Busy(s) EXCEPT
          !.dataToSign = Derived("message", signRequest.name),
          !.isHash = signRequest.isHash,
          !.isOversized = signRequest.oversized,
          !.message = Derived("message", signRequest.name),
          !.sender = getAccountByAddress(signRequest.account),
          !.type = "message"]

\* the state setDataToSign leaves: busy is set first (line 310), the rest
\* (lines 335-342) only when the sender is found
DataToSignState(s, signRequest) ==
  IF DataToSignThrows(signRequest) THEN Busy(s)
  ELSE [Busy(s) EXCEPT
          !.dataToSign = IF signRequest.crypto \in {"sr25519", "ed25519"}
                         THEN Derived("message", signRequest.name)
                         ELSE Derived("ethSign", signRequest.name),
          !.isHash = signRequest.isHash,
          !.isOversized = signRequest.oversized,
          !.message = Derived("message", signRequest.name),
          !.sender = getAccountByAddress(signRequest.account),
          !.type = "message"]

\* mutant of setData: every request that is no transaction is taken as a
\* message
setData_NoDefault ==
  LET unsignedData == state.unsignedData IN
  /\ UNCHANGED <<session, pending>>
  /\ IF unsignedData.action = "signTransaction"
     THEN /\ state' = TXRequestState(state, unsignedData)
          /\ thrown' = TXRequestThrows(unsignedData)
          /\ Called("setData", "",
                    IF TXRequestThrows(unsignedData) THEN "undefined" ELSE "true")
     ELSE /\ state' = DataToSignState(state, unsignedData)
          /\ thrown' = DataToSignThrows(unsignedData)
          /\ Called("setData", "",
                    IF DataToSignThrows(unsignedData) THEN "undefined" ELSE "true")

\* setData(accountsStore), lines 296-307, with the call it dispatches to
setData ==
  LET unsignedData == state.unsignedData IN
  /\ UNCHANGED <<session, pending>>
  /\ IF unsignedData.action = "signTransaction"
     THEN /\ state' = TXRequestState(state, unsignedData)
          /\ thrown' = TXRequestThrows(unsignedData)
          /\ Called("setData", "",
                    IF TXRequestThrows(unsignedData) THEN "undefined" ELSE "true")
     ELSE IF unsignedData.action = "signData"
     THEN /\ state' = DataToSignState(state, unsignedData)
          /\ thrown' = DataToSignThrows(unsignedData)
          /\ Called("setData", "",
                    IF DataToSignThrows(unsignedData) THEN "undefined" ELSE "true")
     ELSE \* lines 302-305, or the TypeError of line 297 when unsignedData
          \* is null
          /\ state' = state
          /\ thrown' = TRUE
          /\ Called("setData", "", "undefined")

\* ---- sign operations, lines 412-511
\* a call in flight: the sign operation it belongs to, the native function
\* called, the isEthereum the operation computed before calling and the
\* data to sign it handed over
PendingCall(op, call, isEthereum, signable) ==
  [op |-> op, call |-> call, isEthereum |-> isEthereum, signable |-> signable]

\* lines 414-416 and 467-469; a TypeError when sender is null
SenderIsEthereum(s) == NetworkProtocol(s.sender.networkKey) = ETHEREUM

RemoveAt(seq, i) == SubSeq(seq, 1, i - 1) \o SubSeq(seq, i + 1, Len(seq))

\* A sign operation up to its call of the signing backend: op is
\* signDataBiometric (lines 412-450) or signDataWithSuri (lines 465-486;
\* signDataWithSeed, lines 494-505, ends in the same call).
StartSignUpTo(op, limit) ==
  /\ Len(pending) < limit
  /\ Called(op, "", "undefined")
  /\ IF state.sender = NoAccount
     THEN thrown' = TRUE /\ UNCHANGED pending
     ELSE /\ thrown' = FALSE
          /\ pending' = Append(pending,
                 PendingCall(op, "sign", SenderIsEthereum(state),
                             IF op = "signDataWithSuri"
                             THEN SignableWithSuri(state, SenderIsEthereum(state))
                             ELSE Signable(state, SenderIsEthereum(state))))
  /\ UNCHANGED <<session, state>>

StartSign(op) == StartSignUpTo(op, MaxPending)

signDataBiometric == StartSign("signDataBiometric")

signDataWithSuri == StartSign("signDataWithSuri")

\* signDataLegacy(pin) up to its call of decryptData, lines 507-509
signDataLegacyUpTo(limit) ==
  /\ Len(pending) < limit
  /\ Called("signDataLegacy", "", "undefined")
  /\ IF state.sender = NoAccount
     THEN thrown' = TRUE /\ UNCHANGED pending
     ELSE /\ thrown' = FALSE
          /\ pending' = Append(pending,
                 PendingCall("signDataLegacy", "decryptData", FALSE, <<>>))
  /\ UNCHANGED <<session, state>>

signDataLegacy == signDataLegacyUpTo(MaxPending)

\* decryptData resolves: signDataLegacy goes on with signDataWithSuri (line
\* 510), which reads the state as it is now
DecryptResolves(i) ==
  /\ pending[i].call = "decryptData"
  /\ Called("decryptData resolves", pending[i].op, "undefined")
  /\ IF state.sender = NoAccount
     THEN thrown' = TRUE /\ pending' = RemoveAt(pending, i)
     ELSE /\ thrown' = FALSE
          /\ pending' = Append(RemoveAt(pending, i),
                 PendingCall("signDataWithSuri", "sign", SenderIsEthereum(state),
                             SignableWithSuri(state, SenderIsEthereum(state))))
  /\ UNCHANGED <<session, state>>

\* the signing backend resolves with a signature: lines 452-458 and 471-491
BackendResolves(i, signed) ==
  /\ pending[i].call = "sign"
  /\ Called("backend resolves", pending[i].op, "undefined")
  /\ thrown' = FALSE
  /\ state' = [state EXCEPT
                 !.signedData =
                   IF pending[i].op = "signDataWithSuri"
                   THEN SignedDataWithSuri(pending[i].isEthereum, signed)
                   ELSE SignedData(pending[i].isEthereum, signed)]
  /\ pending' = RemoveAt(pending, i)
  /\ UNCHANGED session

\* what a sign operation leaves of the state when its native call rejects:
\* signDataBiometric catches and returns false (lines 459-462), the others
\* let the rejection through; mutant: the lock is released
RejectedState_Ready(s) == [s EXCEPT !.busy = FALSE]
RejectedState(s) == s

\* the signing backend, or decryptData, rejects
NativeCallRejects(i) ==
  /\ IF pending[i].op = "signDataBiometric"
     THEN thrown' = FALSE /\ Called("native call rejects", pending[i].op, "false")
     ELSE thrown' = TRUE /\ Called("native call rejects", pending[i].op, "undefined")
  /\ state' = RejectedState(state)
  /\ pending' = RemoveAt(pending, i)
  /\ UNCHANGED session

\* Scanning and decoding: payloads are scanned, unsigned requests are set
\* and resolved, the lock is set and released, and no sign operation is
\* called.
NextScan ==
  \/ \E parsedData \in ScannedRequests : setParsedData(parsedData)
  \/ setParsedData_DecodeError
  \/ \E frame \in 0..(ShownFrameCount - 1) : setParsedData_Multipart(frame)
  \/ \E data \in Requests : setUnsigned(data)
  \/ setData
  \/ setBusy
  \/ setReady
  \/ clearMultipartProgress
  \/ cleanup

SpecScan == Init /\ [][NextScan]_vars

\* Resolving addresses: payloads whose address is stored as it is (msgBob,
\* txEve), is stored under the prefix of the first network (txAlice42), of
\* the fourth and of the sixth (msgBob2) or of none (txNobody), and one
\* whose address is no SS58 address and is not stored (txMallory), are
\* scanned and resolved.
ResolverRequests ==
  { RequestNamed("msgBob"), RequestNamed("txEve"), RequestNamed("txAlice42"),
    RequestNamed("txNobody"), RequestNamed("txMallory"),
    Request("msgBob2", "signData", SS58(2, 2), "sr25519", "",
            "", FALSE, "undefined") }

NextResolver ==
  \/ \E parsedData \in ResolverRequests : setParsedData(parsedData)
  \/ setData
  \/ setReady
  \/ cleanup

SpecResolver == Init /\ [][NextResolver]_vars

\* Signing: the request scanned is one that resolves (an extrinsic, a
\* message, an Ethereum transaction), and the sign operations are called at
\* any time; a native call in flight resolves or rejects at any later time.
SignRequests ==
  {RequestNamed("txAlice"), RequestNamed("msgBob"), RequestNamed("txEve")}

NextSign ==
  \/ \E parsedData \in SignRequests : setParsedData(parsedData)
  \/ \E frame \in 0..(ShownFrameCount - 1) : setParsedData_Multipart(frame)
  \/ setData
  \/ setReady
  \/ signDataBiometric
  \/ signDataWithSuri
  \/ signDataLegacy
  \/ \E i \in 1..Len(pending) : DecryptResolves(i)
  \/ \E i \in 1..Len(pending), signed \in Signatures : BackendResolves(i, signed)
  \/ \E i \in 1..Len(pending) : NativeCallRejects(i)
  \/ clearMultipartProgress
  \/ cleanup

SpecSign == Init /\ [][NextSign]_vars

\* Signing requests of every kind of data, one sign operation at a time: a
\* request is set and resolved, one sign operation is called, and its native
\* call resolves or rejects before the next one is called.
SignableRequests ==
  {RequestNamed("txAlice"), RequestNamed("msgBob"), RequestNamed("txEve"),
   RequestNamed("msgEve")} \cup MessageRequests

NextSignable ==
  \/ \E data \in SignableRequests : setUnsigned(data)
  \/ setData
  \/ pending = <<>> /\ signDataBiometric
  \/ pending = <<>> /\ signDataWithSuri
  \/ pending = <<>> /\ signDataLegacy
  \/ \E i \in 1..Len(pending) : DecryptResolves(i)
  \/ \E i \in 1..Len(pending), signed \in Signatures : BackendResolves(i, signed)
  \/ \E i \in 1..Len(pending) : NativeCallRejects(i)
  \/ cleanup

SpecSignable == Init /\ [][NextSignable]_vars

\* Sign operations called while others are in flight: the backend calls in
\* flight at one time are at most
MaxConcurrent == 2

ConcurrentRequests == {RequestNamed("txAlice"), RequestNamed("txEve")}

NextConcurrent ==
  \/ \E parsedData \in ConcurrentRequests : setParsedData(parsedData)
  \/ setData
  \/ StartSignUpTo("signDataBiometric", MaxConcurrent)
  \/ StartSignUpTo("signDataWithSuri", MaxConcurrent)
  \/ signDataLegacyUpTo(MaxConcurrent)
  \/ \E i \in 1..Len(pending) : DecryptResolves(i)
  \/ \E i \in 1..Len(pending), signed \in Signatures : BackendResolves(i, signed)
  \/ \E i \in 1..Len(pending) : NativeCallRejects(i)
  \/ cleanup

SpecConcurrent == Init /\ [][NextConcurrent]_vars



\* ============================================================= claims
\* the set of the elements of an array
Range(arr) == {arr[i] : i \in 1..Len(arr)}

StoredFrames == DOMAIN multipartData

\* the latest call was a frame submission
Submitted == lastCall.op = "setPartData"

\* the fragments of frames 0..n-1 of the shown payload, one after the other
RECURSIVE ShownPayload(_)
ShownPayload(n) ==
  IF n = 0 THEN <<>> ELSE Append(ShownPayload(n - 1), 160 + (n - 1))

\* bytes 1-2 of a blob, the frame count of its header, as a number
BlobFrameCount(blob) == 256 * blob[2] + blob[3]
\* bytes 3-4 of a blob, the frame index of its header, as a number
BlobFrame(blob) == 256 * blob[4] + blob[5]

\* ---- C1
\* C1 as stated (under SpecShown): the blob handed to the decoder when a
\* session of the shown payload completes is the same, byte for byte, as
\* the blob of the first completed session of the same payload, whatever
\* the arrival order.
C1_BlobSameForEveryOrder ==
  (/\ multipartComplete
   /\ firstBlob # <<>>
   /\ BlobFrameCount(firstBlob) = totalFrameCount)
  => concatMultipartData = firstBlob

\* C1 amended (under SpecShown): on completion of a session of the shown
\* payload of N frames the blob is the marker byte, N as two bytes, two
\* bytes holding the index of the frame whose submission triggered
\* completion, and then the fragments of frames 0..N-1 in ascending index
\* order; only the two index bytes depend on the arrival order.
C1_BlobBodyIndependentOfOrder ==
  multipartComplete =>
    /\ Len(concatMultipartData) = 5 + totalFrameCount
    /\ SubSeq(concatMultipartData, 1, 3) = <<0, 0, totalFrameCount>>
    /\ BlobFrame(concatMultipartData) \in 0..(totalFrameCount - 1)
    /\ SubSeq(concatMultipartData, 6, Len(concatMultipartData))
         = ShownPayload(totalFrameCount)

\* C1 witness: a second session of the same payload has completed, on
\* another frame than the first one, and its blob differs from the first
\* session's blob in the frame index bytes only.
C1_Witness ==
  /\ multipartComplete
  /\ firstBlob # <<>>
  /\ BlobFrameCount(firstBlob) = totalFrameCount
  /\ totalFrameCount >= 2
  /\ concatMultipartData # firstBlob
  /\ SubSeq(concatMultipartData, 6, Len(concatMultipartData))
       = SubSeq(firstBlob, 6, Len(firstBlob))

\* ---- C2
\* C2: in every reachable state missedFrames holds no index that is a key
\* of multipartData.
C2_MissedFramesAreNotStored ==
  Range(missedFrames) \cap StoredFrames = {}

\* ---- C3
\* C3: in every reachable state missedFrames holds every index that was
\* skipped between two consecutively observed frames and is not stored yet,
\* whatever the earlier of the two frames was (index 0 included).
C3_SkippedFramesAreMissed ==
  \A i \in gaps : i \notin StoredFrames => i \in Range(missedFrames)

\* ---- C4
\* C4: completion is one-shot.  A session hands at most one blob to the
\* decoder, and a frame submitted to a complete session leaves the session
\* complete, hands nothing to the decoder and leaves the stored frames as
\* they are.
C4_CompletionIsOneShot ==
  [][/\ decodeCalls' <= 1
     /\ multipartComplete' = (decodeCalls' = 1)
     /\ (multipartComplete /\ lastCall'.op = "setPartData") =>
          /\ multipartComplete'
          /\ decodeCalls' = decodeCalls
          /\ concatMultipartData' = concatMultipartData
          /\ multipartData' = multipartData]_vars

\* C4 witness: the session is complete and the latest call submitted a
\* frame other than the one that triggered completion, so it came later.
C4_Witness ==
  /\ multipartComplete
  /\ decodeCalls = 1
  /\ Submitted
  /\ lastCall.frame # BlobFrame(concatMultipartData)

\* ---- C5
\* C5: whenever multipartComplete is true, the number of stored frames is
\* totalFrameCount and every index in 0..totalFrameCount-1 is stored,
\* whatever indices and frame counts the submitted frames carried.
C5_CompleteMeansAllFramesPresent ==
  multipartComplete =>
    /\ Cardinality(StoredFrames) = totalFrameCount
    /\ \A i \in 0..(totalFrameCount - 1) : i \in StoredFrames

\* ---- C6
\* C6: within a session totalFrameCount is the frame count carried by the
\* first frame submitted (0 before any frame), whatever frame counts the
\* later frames carry.
C6_TotalFrameCountSetOnce ==
  totalFrameCount = firstFrameCount

\* C6 witness: a later frame of the session carried another frame count
\* than the first one.
C6_Witness ==
  /\ Submitted
  /\ firstFrameCount # 0
  /\ lastCall.frameCount # firstFrameCount
  /\ totalFrameCount = firstFrameCount

\* ---- C7
\* C7: whenever totalFrameCount is recorded, multipartData has at most
\* totalFrameCount keys.
C7_FramesAtMostTotal ==
  totalFrameCount # 0 => Cardinality(StoredFrames) <= totalFrameCount

\* C7 witness: totalFrameCount frames are stored and the latest call
\* submitted a frame with yet another index.
C7_Witness ==
  /\ totalFrameCount # 0
  /\ Cardinality(StoredFrames) = totalFrameCount
  /\ Submitted
  /\ lastCall.frame \notin StoredFrames

\* ---- C8
\* C8: when frames 0..N-1 of the shown payload are submitted once each, in
\* ascending order, to a fresh session, missedFrames is empty after every
\* submission and the session is complete once frame N-1 is submitted.
C8_AscendingOrderCompletes ==
  (Submitted /\ ascending # Null) =>
    /\ missedFrames = <<>>
    /\ ascending = firstFrameCount => multipartComplete

\* ---- C9
\* C9: in a session of the shown payload, (a) right after a frame is
\* processed that skips over indices, the skipped indices that are not
\* stored are in missedFrames; (b) when a frame that is in missedFrames is
\* processed, it is no longer in missedFrames; (c) when the frame processed
\* is the last one that was not yet delivered, the session is complete.
C9_SkippedFrameIsMissedThenFilled ==
  [][(lastCall'.op = "setPartData" /\ sessionWellFormed') =>
       LET frame == lastCall'.frame
           total == lastCall'.frameCount
       IN  /\ lastCall.op = "setPartData" =>
                \A i \in Between(lastCall.frame, frame, total) :
                  i \notin DOMAIN multipartData' => i \in Range(missedFrames')
           /\ frame \in Range(missedFrames) => frame \notin Range(missedFrames')
           /\ (/\ frame \in Range(missedFrames)
               /\ (0..(total - 1)) \ StoredFrames = {frame})
              => multipartComplete']_vars

\* ---- C10
\* C10: submitting frame 0 with a fragment whose first byte is 0x00 or 0x7B
\* throws, and leaves totalFrameCount, latestFrame, multipartData,
\* missedFrames, multipartComplete and completedFramesCount as they were.
C10_ReservedFirstByteIsRejected ==
  [][(/\ lastCall'.op = "setPartData"
      /\ lastCall'.frame = 0
      /\ 16 * lastCall'.partData[1] + lastCall'.partData[2] \in {0, 123})
     => thrown' /\ UNCHANGED assembly]_vars

\* ------------------------------------------------ C11..C20, shared names
\* the Resolved Signing Context of a state
SigningContext(s) == <<s.sender, s.recipient, s.dataToSign, s.signedData, s.busy>>

AssemblyIsInitial ==
  /\ completedFramesCount = 0
  /\ latestFrame = Null
  /\ missedFrames = <<>>
  /\ multipartComplete = FALSE
  /\ multipartData = EmptyObject
  /\ totalFrameCount = 0

\* the prefixes of the known Substrate networks
KnownPrefixes ==
  {SUBSTRATE_NETWORK_LIST[i].prefix : i \in 1..Len(SUBSTRATE_NETWORK_LIST)}

\* the stored accounts whose address is the key of this SS58 address under
\* the prefix of a known network
Reencodings(address) ==
  {a \in accounts : /\ a.address.format = "ss58"
                    /\ a.address.key = address.key
                    /\ a.address.prefix \in KnownPrefixes}

IsStored(address) == \E a \in accounts : a.address = address

\* ---- C11
\* C11 (under SpecScan): while busy is true, a scan or decode operation
\* (setParsedData, setPartData, setData with the setTXRequest or
\* setDataToSign it dispatches to) changes neither the Resolved Signing
\* Context nor unsignedData.
C11_BusyLocksOutScanAndDecode ==
  [][(/\ state.busy
      /\ lastCall'.op \in {"setParsedData", "setPartData", "setData"})
     => /\ SigningContext(state') = SigningContext(state)
        /\ state'.unsignedData = state.unsignedData]_vars

\* ---- C12
\* C12 (under SpecSign): in every state where a call of a sign operation to
\* the signing backend has neither resolved nor rejected, busy is true.
C12_BusyWhileBackendCallInFlight ==
  (\E i \in 1..Len(pending) : pending[i].call = "sign") => state.busy

\* ---- C13
\* C13 (under SpecSign): when the signing backend, or decryptData, rejects
\* the call of a sign operation, the operation reports the failure (it
\* returns false or rejects), signedData keeps its value, busy stays true if
\* it was, and the store makes no further native call for it.
C13_RejectionLeavesStateAlone ==
  [][lastCall'.op = "native call rejects" =>
       /\ thrown' \/ lastCall'.returned = "false"
       /\ state'.signedData = state.signedData
       /\ state.busy => state'.busy
       /\ \E i \in 1..Len(pending) : pending' = RemoveAt(pending, i)]_vars

\* C13 witness: the backend has rejected the call of signDataBiometric for
\* a resolved request; busy is true and there is no signature.
C13_Witness ==
  /\ lastCall.op = "native call rejects"
  /\ lastCall.arg = "signDataBiometric"
  /\ lastCall.returned = "false"
  /\ state.busy
  /\ state.sender # NoAccount
  /\ state.signedData = <<>>

\* ---- C14
\* C14 (under SpecSign): busy becomes true only through setBusy, as called
\* by setTXRequest and setDataToSign; signedData becomes non-empty only in a
\* state where busy is true; busy becomes false only through cleanup().
C14_IdlePendingSignedIdle ==
  [][/\ (~state.busy /\ state'.busy) => lastCall'.op \in {"setBusy", "setData"}
     /\ (state.signedData = <<>> /\ state'.signedData # <<>>)
          => (state.busy /\ state'.busy)
     /\ (state.busy /\ ~state'.busy) => lastCall'.op = "cleanup"]_vars

\* ---- C15
\* C15 (under SpecSign): whatever the state cleanup() is called in, every
\* field equals DEFAULT_STATE once it has resolved, so a second cleanup()
\* changes nothing; and cleanup() can be called in every state.
C15_CleanupRestoresDefaults ==
  [][/\ ENABLED cleanup
     /\ lastCall'.op = "cleanup" =>
          /\ state' = DEFAULT_STATE
          /\ AssemblyIsInitial'
          /\ lastCall.op = "cleanup" => (state' = state /\ assembly' = assembly)]_vars

\* C15 witness: cleanup() has resolved while a backend call was in flight,
\* and every field is at its default.
C15_Witness ==
  /\ lastCall.op = "cleanup"
  /\ pending # <<>>
  /\ state = DEFAULT_STATE
  /\ AssemblyIsInitial

\* ---- C16
\* C16 (under SpecSign): clearMultipartProgress sets completedFramesCount,
\* latestFrame, missedFrames, multipartComplete, multipartData and
\* totalFrameCount to their initial values and leaves sender, recipient,
\* dataToSign, signedData and busy as they are.
C16_ClearKeepsSigningContext ==
  [][lastCall'.op = "clearMultipartProgress" =>
       /\ AssemblyIsInitial'
       /\ SigningContext(state') = SigningContext(state)]_vars

\* C16 witness: clearMultipartProgress has run on a signed request: the
\* assembly is initial and sender, signedData and busy are still set.
C16_Witness ==
  /\ lastCall.op = "clearMultipartProgress"
  /\ AssemblyIsInitial
  /\ state.busy
  /\ state.sender # NoAccount
  /\ state.dataToSign # EmptyString
  /\ state.signedData # <<>>

\* ---- C17
\* C17 (under SpecSign): when the backend resolves the call of a sign
\* operation, signedData is, for a Substrate sender, the hex digits "01"
\* followed by the hex digits of the signature, without 0x in front, and for
\* an Ethereum sender the signature as the backend returned it.
C17_SignedDataIsTaggedSignature ==
  [][lastCall'.op = "backend resolves" =>
       \E i \in 1..Len(pending), signed \in Signatures :
         /\ pending[i].call = "sign"
         /\ pending' = RemoveAt(pending, i)
         /\ state'.signedData = IF pending[i].isEthereum THEN signed
                                ELSE <<"0", "1">> \o signed]_vars

\* C17 witness: a message that declares ed25519 has been signed through
\* signDataWithSuri, and signedData starts with the tag 01.
C17_Witness ==
  /\ lastCall.op = "backend resolves"
  /\ lastCall.arg = "signDataWithSuri"
  /\ state.type = "message"
  /\ state.unsignedData.crypto = "ed25519"
  /\ state.sender = getAccountByAddress(state.unsignedData.account)
  /\ state.signedData = <<"0", "1", "a", "b", "0", "f">>

\* ---- C18
\* C18 (under SpecScan): when setParsedData decodes a payload whose SS58
\* address is the address of no account, while the same key under the
\* prefix of a known network is, the call succeeds, unsignedData is the
\* payload with data.account replaced by the address of such an account,
\* and scanErrorMsg is left as it was.
C18_ReencodedAddressResolves ==
  [][LET parsedData == RequestNamed(lastCall'.arg) IN
     (/\ lastCall'.op = "setParsedData"
      /\ parsedData # NoRequest
      /\ ~IsStored(parsedData.account)
      /\ parsedData.account.format = "ss58"
      /\ Reencodings(parsedData.account) # {})
     => /\ ~thrown'
        /\ \E a \in Reencodings(parsedData.account) :
             state'.unsignedData = [parsedData EXCEPT !.account = a.address]
        /\ state'.scanErrorMsg = state.scanErrorMsg]_vars

\* C18 witness: the extrinsic that names Alice's key under prefix 42 has
\* been scanned, and unsignedData names Alice's Kusama address.
C18_Witness ==
  /\ lastCall.op = "setParsedData"
  /\ lastCall.arg = "txAlice42"
  /\ state.unsignedData.name = "txAlice42"
  /\ state.unsignedData.account = SS58(1, 2)
  /\ state.scanErrorMsg = NoErrorMsg

C20_DecodeErrorLeavesStateAlone ==
  [][LET unsignedData == state.unsignedData IN
     (/\ lastCall'.op = "setData"
      /\ \/ unsignedData.action \notin {"signTransaction", "signData"}
         \/ /\ unsignedData.action = "signTransaction"
            /\ unsignedData.rlp # ""
            /\ unsignedData.account = NoAddress
         \/ /\ unsignedData.action = "signTransaction"
            /\ NetworkProtocol(TxNetworkKey(unsignedData)) = "undefined")
     => /\ thrown'
        /\ state' = state]_vars

\* ---- C24
\* C24 (under SpecShown): a frame submitted to a session that is not
\* complete, that is not rejected and that does not complete the session, is
\* stored in multipartData under its index by that same submission, the
\* first frame of a session included.
C24_SubmittedFrameIsStored ==
  [][(/\ lastCall'.op = "setPartData"
      /\ ~thrown'
      /\ ~multipartComplete
      /\ ~multipartComplete')
     => /\ lastCall'.frame \in DOMAIN multipartData'
        /\ multipartData'[lastCall'.frame]
             = partDataAsBytes(lastCall'.partData)]_vars

\* ---- C25
\* C25 (under SpecShown): submitting again a frame whose index is stored,
\* with the payload that is stored, to a session that is not complete leaves
\* the stored frames as they are and leaves the set of indices in
\* missedFrames as it is.
C25_ResubmissionChangesNothing ==
  [][(/\ lastCall'.op = "setPartData"
      /\ ~multipartComplete
      /\ lastCall'.frame \in DOMAIN multipartData
      /\ multipartData[lastCall'.frame] = partDataAsBytes(lastCall'.partData))
     => /\ multipartData' = multipartData
        /\ Range(missedFrames') = Range(missedFrames)]_vars

\* ---- C26
\* C26 (under SpecShown): when a frame f is stored while a previous frame
\* index L is recorded, with d = (f - L - 1) mod totalFrameCount: if d >= 1,
\* every index added to missedFrames is one of L+1 .. L+d (mod
\* totalFrameCount) and each of these is in missedFrames afterwards, so that
\* neither L nor f is added; and latestFrame is f afterwards.  Stated for
\* L >= 1 and f other than L.
C26_AddedMissedFramesAreTheSkippedOnes ==
  [][(/\ lastCall'.op = "setPartData"
      /\ ~thrown'
      /\ latestFrame # Null
      /\ latestFrame >= 1
      /\ lastCall'.frame # latestFrame
      /\ ~multipartComplete
      /\ Cardinality(DOMAIN multipartData) < totalFrameCount)
     => LET f == lastCall'.frame
            L == latestFrame
            d == (f - L - 1) % totalFrameCount
            skipped == {(L + k) % totalFrameCount : k \in 1..d}
        IN  /\ d >= 1 =>
                 /\ Range(missedFrames') \ Range(missedFrames) \subseteq skipped
                 /\ skipped \subseteq Range(missedFrames')
            /\ latestFrame' = f]_vars

\* ---- C27
\* the payloads stored under the indices k, k+1, ..., one after the other
RECURSIVE PayloadsFrom(_, _)
PayloadsFrom(data, k) ==
  IF \A i \in DOMAIN data : i < k THEN <<>>
  ELSE (IF k \in DOMAIN data THEN data[k] ELSE <<>>) \o PayloadsFrom(data, k + 1)

\* C27: the submission that completes a session hands the decoder, once, the
\* blob made of byte 0x00, totalFrameCount as two bytes (high byte first),
\* the index of the submitted frame as two bytes (high byte first) and the
\* payloads of all stored frames in ascending order of their index; the
\* blob is not taken as a frame: the stored frames, latestFrame,
\* missedFrames and totalFrameCount stay as they were.
C27_CompletionBlobLayout ==
  [][(lastCall'.op = "setPartData" /\ multipartComplete' /\ ~multipartComplete)
     => /\ concatMultipartData' =
             <<0, totalFrameCount \div 256, totalFrameCount % 256,
               lastCall'.frame \div 256, lastCall'.frame % 256>>
             \o PayloadsFrom(multipartData, 0)
        /\ decodeCalls' = decodeCalls + 1
        /\ multipartData' = multipartData
        /\ latestFrame' = latestFrame
        /\ missedFrames' = missedFrames
        /\ totalFrameCount' = totalFrameCount]_vars

\* C27 witness: a session of at least two frames was completed by a frame
\* other than frame 0, after a frame was stored out of ascending order.
C27_Witness ==
  /\ Submitted
  /\ multipartComplete
  /\ totalFrameCount >= 2
  /\ Cardinality(StoredFrames) = totalFrameCount
  /\ completedFramesCount = totalFrameCount
  /\ lastCall.frame # 0
  /\ BlobFrame(concatMultipartData) = lastCall.frame
  /\ ascending = Null

\* ---- C29
\* C29 (under SpecScan): when setData has dispatched to setTXRequest and
\* returned true, the request was taken as an Ethereum one exactly when it
\* carries rlp: dataToSign is keccak(rlp) and the sender an account of the
\* chain of the decoded transaction when it does, dataToSign is data.data
\* and the sender an account of the network of the payload's genesis hash
\* when it does not; the sender has the address data.account, and type is
\* 'transaction'.
C29_TXRequestResolved ==
  LET r == state.unsignedData IN
  (/\ lastCall.op = "setData"
   /\ lastCall.returned = "true"
   /\ r.action = "signTransaction")
  => /\ state.type = "transaction"
     /\ state.sender \in accounts
     /\ state.sender.address = r.account
     /\ IF r.rlp # ""
        THEN /\ state.dataToSign = [kind |-> "keccak", of |-> r.rlp]
             /\ state.sender.networkKey = transaction(r.rlp).ethereumChainId
             /\ state.sender.networkKey \in ETHEREUM_NETWORK_LIST
        ELSE /\ state.dataToSign = [kind |-> "payload", of |-> r.name]
             /\ state.sender.networkKey = r.genesisHash
             /\ state.sender.networkKey \notin ETHEREUM_NETWORK_LIST

\* C29 witness: an Ethereum transaction was resolved while the context was
\* that of a message.
C29_Witness ==
  /\ lastCall.op = "setData"
  /\ lastCall.returned = "true"
  /\ state.unsignedData.action = "signTransaction"
  /\ state.unsignedData.rlp # ""
  /\ state.type = "transaction"
  /\ state.message.kind = "message"

\* ---- C30
\* C30 (under SpecScan): when setData dispatches to setDataToSign, then: if
\* an account has the address data.account, the call returns true,
\* dataToSign is the message itself when crypto is sr25519 or ed25519 and
\* ethSign(message) otherwise, the sender is that account and type is
\* 'message'; if no account has it, the call throws and dataToSign, sender
\* and type are as they were.
C30_DataToSignResolved ==
  [][(lastCall'.op = "setData" /\ state.unsignedData.action = "signData")
     => LET r == state.unsignedData IN
        IF \E a \in accounts : a.address = r.account
        THEN /\ lastCall'.returned = "true"
             /\ ~thrown'
             /\ state'.dataToSign =
                  [kind |-> IF r.crypto \in {"sr25519", "ed25519"}
                            THEN "message" ELSE "ethSign",
                   of |-> r.name]
             /\ state'.sender \in accounts
             /\ state'.sender.address = r.account
             /\ state'.type = "message"
        ELSE /\ thrown'
             /\ state'.dataToSign = state.dataToSign
             /\ state'.sender = state.sender
             /\ state'.type = state.type]_vars

\* C30 witness: an Ethereum message was resolved while the context was that
\* of a transaction.
C30_Witness ==
  /\ lastCall.op = "setData"
  /\ lastCall.returned = "true"
  /\ state.unsignedData.action = "signData"
  /\ state.dataToSign.kind = "ethSign"
  /\ state.tx.kind # "null"
  /\ state.type = "message"

\* ---- C21, C28
\* the latest step took a sign operation to the point where it calls the
\* signing backend, or throws before: signDataBiometric, signDataWithSuri,
\* or the signDataWithSuri that signDataLegacy goes on with
SignSteps == {"signDataBiometric", "signDataWithSuri", "decryptData resolves"}

\* the sender of the context is an account of a Substrate network
SubstrateSender(s) ==
  /\ s.sender # NoAccount
  /\ NetworkProtocol(s.sender.networkKey) = SUBSTRATE

\* dataToSign is a structured payload, is flagged as a hash, is raw bytes,
\* is a string of ASCII characters
IsStructured(s) == ValueOf(s.dataToSign).shape = "GenericExtrinsicPayload"
IsRawBytes(s) == ValueOf(s.dataToSign).shape = "Uint8Array"
IsAsciiText(s) ==
  /\ ValueOf(s.dataToSign).shape = "string"
  /\ \A c \in Range(ValueOf(s.dataToSign).chars) :
       \E e \in CharCodes : e.char = c /\ e.code < 128

\* the backend calls in flight
SignCalls(p) == {i \in DOMAIN p : p[i].call = "sign"}

\* C21 (under SpecSignable): when the sender is a Substrate account and
\* dataToSign is neither a structured payload, nor flagged isHash, nor raw
\* bytes, nor ASCII text, a sign operation throws and does not call the
\* signing backend; the backend is never called with an undefined signable.
C21_UnsignableDataIsRejected ==
  [][(/\ lastCall'.op \in SignSteps
      /\ SubstrateSender(state)
      /\ ~IsStructured(state) /\ ~state.isHash
      /\ ~IsRawBytes(state) /\ ~IsAsciiText(state))
     => /\ thrown'
        /\ SignCalls(pending') = {}]_vars

\* C28 (under SpecSignable): a sign operation for a Substrate sender hands
\* the backend, in one call, the signable of the first branch that applies:
\* the hex digits of the payload's encoding without length prefix for a
\* structured payload; else dataToSign without its 0x when isHash is set;
\* else the hex digits of the bytes for raw bytes; else the hex digits of
\* the character codes for ASCII text.
C28_SignableIsFirstMatch ==
  [][(/\ lastCall'.op \in SignSteps
      /\ SubstrateSender(state)
      /\ IsStructured(state) \/ state.isHash \/ IsRawBytes(state)
           \/ IsAsciiText(state))
     => LET value == ValueOf(state.dataToSign)
            codes == [i \in 1..Len(value.chars) |->
                        (CHOOSE e \in CharCodes : e.char = value.chars[i]).code]
        IN  /\ ~thrown'
            /\ Cardinality(SignCalls(pending')) = 1
            /\ \A i \in SignCalls(pending') :
                 /\ ~pending'[i].isEthereum
                 /\ pending'[i].signable =
                      IF IsStructured(state) THEN ByteDigits(value.bytes)
                      ELSE IF state.isHash
                      THEN (IF Len(value.chars) >= 2 /\ value.chars[1] = "0"
                               /\ value.chars[2] = "x"
                            THEN SubSeq(value.chars, 3, Len(value.chars))
                            ELSE value.chars)
                      ELSE IF IsRawBytes(state) THEN ByteDigits(value.bytes)
                      ELSE ByteDigits(codes)]_vars

\* C28 witness: the backend was called for a structured payload while
\* isHash was set, left by an oversized message resolved before.
C28_Witness ==
  /\ SubstrateSender(state)
  /\ IsStructured(state)
  /\ state.isHash
  /\ pending # <<>>
  /\ \A i \in DOMAIN pending :
       /\ pending[i].call = "sign"
       /\ pending[i].signable = <<"0", "4", "0", "0">>

\* ---- C22
\* C22 (under SpecConcurrent): a sign operation called right after another
\* one, whose backend call is still in flight for the same context, does
\* not reach the backend: there are never two backend calls in flight
\* that were started one right after the other.
C22_OneBackendCallAtATime ==
  [][(/\ lastCall.op \in {"signDataBiometric", "signDataWithSuri"}
      /\ ~thrown
      /\ SignCalls(pending) # {}
      /\ lastCall'.op \in {"signDataBiometric", "signDataWithSuri"})
     => Cardinality(SignCalls(pending')) <= 1]_vars

\* ---- C23
\* C23 (under SpecBackToBack): when two frames are submitted one right
\* after the other, totalFrameCount, latestFrame, missedFrames, the stored
\* frames, multipartComplete and the number of blobs handed to the decoder
\* are afterwards what they are when the second frame is submitted after
\* the state updates of the first are applied.  Stated for sessions whose
\* frame count is recorded already.
C23_BackToBackIsSerial ==
  [][(lastCall'.op = "setPartData twice" /\ totalFrameCount # 0) =>
       \A frame1 \in Frames :
         lastCall'.arg = ToString(frame1) =>
           LET frameCount == lastCall'.frameCount
               after1 == MergePartData(AssemblyState, frame1,
                           RunPartData(AssemblyState, frame1, frameCount,
                                       Chunk(frame1)), TRUE)
               after2 == MergePartData(after1, lastCall'.frame,
                           RunPartData(after1, lastCall'.frame, frameCount,
                                       lastCall'.partData), TRUE)
           IN  /\ totalFrameCount' = after2.totalFrameCount
               /\ latestFrame' = after2.latestFrame
               /\ missedFrames' = after2.missedFrames
               /\ multipartData' = after2.multipartData
               /\ multipartComplete' = after2.multipartComplete
               /\ decodeCalls' = after2.decodeCalls]_vars

\* ---- C31
\* C31 (under SpecScan): when setData has dispatched to setTXRequest and
\* returned true, recipient is the stored account with the recipient
\* address (the action of the decoded transaction, or data.account of an
\* extrinsic) and the network key of the transaction when there is one, and
\* otherwise a placeholder account with that address and that network key.
C31_RecipientResolved ==
  LET r == state.unsignedData
      networkKey == IF r.rlp # "" THEN transaction(r.rlp).ethereumChainId
                    ELSE r.genesisHash
      recipientAddress == IF r.rlp # "" THEN transaction(r.rlp).action
                          ELSE r.account
  IN  (/\ lastCall.op = "setData"
       /\ lastCall.returned = "true"
       /\ r.action = "signTransaction")
      => /\ state.recipient # NoAccount
         /\ state.recipient.address = recipientAddress
         /\ state.recipient.networkKey = networkKey
         /\ (\E a \in accounts :
               a.address = recipientAddress /\ a.networkKey = networkKey)
            => state.recipient \in accounts

\* ---- C33
\* C33 (under SpecScan): setData runs setTXRequest when the action of
\* unsignedData is 'signTransaction' (busy is set, type is 'transaction'
\* when it returns true, and the fields only setDataToSign writes are as
\* they were), runs setDataToSign when it is 'signData' (busy is set, type
\* is 'message' when it returns true, and the fields only setTXRequest
\* writes are as they were), and otherwise throws and leaves the whole
\* state, busy included, as it was.
C33_SetDataDispatch ==
  [][lastCall'.op = "setData" =>
       IF state.unsignedData.action = "signTransaction"
       THEN /\ state'.busy
            /\ lastCall'.returned = "true" => state'.type = "transaction"
            /\ state'.message = state.message
            /\ state'.isHash = state.isHash
       ELSE IF state.unsignedData.action = "signData"
       THEN /\ state'.busy
            /\ lastCall'.returned = "true" => state'.type = "message"
            /\ state'.tx = state.tx
            /\ state'.txRequest = state.txRequest
            /\ state'.recipient = state.recipient
       ELSE /\ thrown'
            /\ lastCall'.returned = "undefined"
            /\ state' = state]_vars

\* C33 witness: setData has thrown for a request whose action is neither of
\* the two, after the lock of an earlier request was released.
C33_Witness ==
  /\ lastCall.op = "setData"
  /\ thrown
  /\ state.unsignedData # NoRequest
  /\ state.unsignedData.action \notin {"signTransaction", "signData"}
  /\ state.type # "null"
  /\ ~state.busy

\* ---- C34
\* C34 (under SpecShown): after a frame submission that is not rejected,
\* completedFramesCount is the number of indices stored in multipartData,
\* and so is at most totalFrameCount.
C34_CompletedFramesCountIsStoredCount ==
  (Submitted /\ ~thrown) =>
    /\ completedFramesCount = Cardinality(StoredFrames)
    /\ completedFramesCount <= totalFrameCount

\* ---- C36
\* C36 (under SpecScan): a call of setParsedData that sets unsignedData
\* from a complete payload also sets prehash to the preHash of that payload.
C36_PrehashBelongsToUnsignedData ==
  [][(/\ lastCall'.op = "setParsedData"
      /\ ~thrown'
      /\ state'.unsignedData # state.unsignedData)
     => state'.prehash = state'.unsignedData.preHash]_vars

\* ---- C37
\* C37 (under SpecSign): when a native call that was in flight at the time
\* of cleanup() resolves or rejects right after the cleanup, before
\* anything new is submitted, unsignedData, prehash, scanErrorMsg, sender,
\* dataToSign and signedData are still at their defaults.
C37_InFlightCallsDoNotWriteAfterCleanup ==
  [][(/\ lastCall.op = "cleanup"
      /\ lastCall'.op \in {"backend resolves", "decryptData resolves",
                           "native call rejects"})
     => /\ state'.unsignedData = DEFAULT_STATE.unsignedData
        /\ state'.prehash = DEFAULT_STATE.prehash
        /\ state'.scanErrorMsg = DEFAULT_STATE.scanErrorMsg
        /\ state'.sender = DEFAULT_STATE.sender
        /\ state'.dataToSign = DEFAULT_STATE.dataToSign
        /\ state'.signedData = DEFAULT_STATE.signedData]_vars

\* ---- C35
\* C35 (under SpecSignable): whichever of signDataBiometric and
\* signDataWithSuri makes a call of the signing backend, the signable it
\* hands over is the one the other operation makes of the same sender,
\* dataToSign and isHash, and when the call resolves the signedData stored
\* is what the other operation stores for the same signature.
C35_SignOperationsAgree ==
  [][/\ (/\ pending' # pending
         /\ pending' # <<>>
         /\ pending'[1].call = "sign")
        => /\ pending'[1].signable = Signable(state, SenderIsEthereum(state))
           /\ pending'[1].signable
                = SignableWithSuri(state, SenderIsEthereum(state))
     /\ lastCall'.op = "backend resolves"
        => \E signed \in Signatures :
             /\ state'.signedData = SignedData(pending[1].isEthereum, signed)
             /\ state'.signedData
                  = SignedDataWithSuri(pending[1].isEthereum, signed)]_vars

\* C35 witness: the backend call of signDataWithSuri has resolved for a
\* Substrate sender whose dataToSign is a structured payload while isHash
\* is set.
C35_Witness ==
  /\ lastCall.op = "backend resolves"
  /\ lastCall.arg = "signDataWithSuri"
  /\ SubstrateSender(state)
  /\ IsStructured(state)
  /\ state.isHash
  /\ state.signedData # <<>>

\* ---- C32
\* the payload of the name among those of SpecResolver
ResolverRequest(name) == CHOOSE r \in ResolverRequests : r.name = name

\* the key-derivation family of a declared crypto scheme
FamilyOf(crypto) ==
  IF crypto \in {"ed25519", "sr25519"} THEN SUBSTRATE ELSE ETHEREUM

\* C32 (under SpecResolver): for a complete payload whose address is not
\* stored as it is, the lookups of the resolver follow the network table
\* from its first entry, one per network, each for the key of the address
\* under the prefix of that network and each for a network of the family of
\* the payload's crypto scheme; no lookup follows a match, the match is the
\* account whose address replaces data.account, and when the table is
\* exhausted without a match there are no further lookups and the address
\* is reported as unknown.
C32_ResolverFollowsTheNetworkTable ==
  (lastCall.op = "setParsedData" /\ lastCall.arg # "") =>
    LET parsedData == ResolverRequest(lastCall.arg)
        lookups == lastCall.lookups
        n == Len(lookups)
    IN  /\ n <= Len(SUBSTRATE_NETWORK_LIST)
        /\ \A i \in 1..n :
             /\ lookups[i].network = SUBSTRATE_NETWORK_LIST[i].key
             /\ lookups[i].address =
                  SS58(parsedData.account.key, SUBSTRATE_NETWORK_LIST[i].prefix)
             /\ NetworkProtocol(lookups[i].network) = FamilyOf(parsedData.crypto)
             /\ i < n => lookups[i].account = NoAccount
        /\ (~thrown /\ getAccountByAddress(parsedData.account) = NoAccount)
           => /\ n >= 1
              /\ IF lookups[n].account # NoAccount
                 THEN /\ lookups[n].account \in accounts
                      /\ lookups[n].account.address = lookups[n].address
                      /\ state.unsignedData.name = parsedData.name
                      /\ state.unsignedData.account = lookups[n].address
                 ELSE /\ n = Len(SUBSTRATE_NETWORK_LIST)
                      /\ state.scanErrorMsg = NoPrivateKeyFound(parsedData.account)

\* C32 witness: the resolver has found the address under the prefix of the
\* fourth network, after three lookups without a match, although the
\* address is stored under the prefix of the sixth network as well.
C32_Witness ==
  /\ lastCall.op = "setParsedData"
  /\ Len(lastCall.lookups) = 4
  /\ lastCall.lookups[4].account # NoAccount
  /\ getAccountByAddress(
       SS58(lastCall.lookups[4].account.address.key,
            SUBSTRATE_NETWORK_LIST[6].prefix)) # NoAccount
  /\ state.unsignedData.account = lastCall.lookups[4].address

\* ---- C38
\* C38 (under SpecDeliver): a fresh session to which the frames of one
\* well-formed payload are delivered one call at a time, every frame again
\* and again, eventually is complete, with every frame of the payload
\* stored and the reassembled blob handed to the decoder.
C38_SessionCompletes ==
  <>(/\ multipartComplete
     /\ totalFrameCount = firstFrameCount
     /\ StoredFrames = 0..(totalFrameCount - 1)
     /\ decodeCalls >= 1
     /\ concatMultipartData # <<>>)

\* C38 witness: a session of more than one frame is complete, all its
\* frames stored, and its blob has been handed to the decoder once.
C38_Witness ==
  /\ Submitted
  /\ multipartComplete
  /\ totalFrameCount >= 2
  /\ StoredFrames = 0..(totalFrameCount - 1)
  /\ decodeCalls = 1
  /\ concatMultipartData # <<>>

====
